---- MODULE Spec2Model ----
(***************************************************************************)
(* Session coordination of the multiplayer chess backend (src/index.js):   *)
(* the rooms and games registries, the socket.io room membership, and the  *)
(* handlers createRoom, joinRoom, move, gameReset, disconnect and the idle *)
(* sweep.  Every handler runs to completion (single-threaded event loop),  *)
(* so each handler is one action.                                          *)
(*                                                                         *)
(* Not modelled: the username / ready / created fields (no handler reads   *)
(* them to take a decision), the ping handler and the HTTP routes.         *)
(*                                                                         *)
(* The rules engine (chess.js) is an external library.  A move input is    *)
(* abstracted by what the engine does with it: "quiet" (legal, game goes   *)
(* on), "mating" (legal, gives checkmate), "drawing" (legal, reaches a     *)
(* drawn position in which legal moves remain: repetition, fifty moves,    *)
(* insufficient material) and "illegal".  The board is identified by the   *)
(* sequence of inputs accepted since the initial position.                 *)
(*                                                                         *)
(* Time is counted in units of 30 minutes.  A behaviour of Spec handles at  *)
(* most MaxEvents events; DeepSpec allows one event more, which an id      *)
(* collision after two moves needs.  LiveSpec bounds the socket events by  *)
(* LiveEvents and lets the clock and the sweep timer run freely, under     *)
(* weak fairness: setInterval fires the sweep every 5 minutes for as long  *)
(* as the process lives.                                                   *)
(***************************************************************************)
EXTENDS Integers, Sequences, FiniteSets, TLC

\* ---------------------------------------------------------------- bounds
NumConns == 3
NumRoomIds == 2
MaxMoves == 2
MaxTime == 2
MaxEvents == 7
LiveEvents == 5

\* maxInactiveTime = 30 * 60 * 1000 ms, in units of 30 minutes
MaxInactiveTime == 1

Conns == 1..NumConns
\* the values generateRoomId can return (8 hex digits in the code)
RoomIds == 1..NumRoomIds
MoveInputs == {"quiet", "mating", "drawing", "illegal"}

VARIABLES
  rooms,      \* Map rooms, as the sequence of its values in insertion order
  games,      \* Map games, as a function on the ids it holds
  members,    \* socket.io adapter: room id -> sockets that joined it
  connected,  \* sockets whose connection is open
  opened,     \* number of connections accepted so far (socket ids 1..opened)
  now,        \* the clock
  issued,     \* number of distinct ids generateRoomId has returned so far
  budget,     \* number of events the behaviour may still handle
  seen,       \* room id -> socket -> moveCount of the last gameUpdate the
              \* socket received for that id (-1: none)
  last,       \* the event handled last
  out         \* the messages that event emitted, in order

vars == <<rooms, games, members, connected, opened, now, issued, budget,
          seen, last, out>>

\* ------------------------------------------------------------ Map rooms
RoomsHas(rs, id) == \E i \in 1..Len(rs) : rs[i].roomId = id

RoomsIndex(rs, id) == CHOOSE i \in 1..Len(rs) : rs[i].roomId = id

RoomsGet(rs, id) == rs[RoomsIndex(rs, id)]

\* Map.set: an existing key keeps its position, a new key goes last
RoomsSet(rs, id, room) ==
  IF RoomsHas(rs, id) THEN [rs EXCEPT ![RoomsIndex(rs, id)] = room]
  ELSE Append(rs, room)

RoomsDelete(rs, id) == SelectSeq(rs, LAMBDA r : r.roomId # id)

RoomsKeys(rs) == {rs[i].roomId : i \in 1..Len(rs)}

\* ------------------------------------------------------------ Map games
GamesSet(gs, id, g) ==
  [k \in (DOMAIN gs) \cup {id} |-> IF k = id THEN g ELSE gs[k]]

GamesDelete(gs, id) == [k \in (DOMAIN gs) \ {id} |-> gs[k]]

\* --------------------------------------------------------- rules engine
NewChess == [turn |-> "w", fen |-> <<>>]

ChessIsCheckmate(chess) ==
  Len(chess.fen) > 0 /\ chess.fen[Len(chess.fen)] = "mating"

ChessIsDraw(chess) ==
  Len(chess.fen) > 0 /\ chess.fen[Len(chess.fen)] = "drawing"

ChessIsGameOver(chess) == ChessIsCheckmate(chess) \/ ChessIsDraw(chess)

\* chess.move accepts the input: it is legal in the position.  An engine
\* release that throws on an illegal input instead of returning null ends in
\* the handler's catch, which also answers the requester alone and changes
\* nothing; the model keeps the message of the !result branch.
ChessLegal(chess, move) == move # "illegal" /\ ~ChessIsCheckmate(chess)

\* the engine after an accepted move: the other side is to move
ChessMove(chess, move) ==
  [turn |-> IF chess.turn = "w" THEN "b" ELSE "w",
   fen  |-> Append(chess.fen, move)]

\* game.chess.turn() === 'w' ? 'white' : 'black'
TurnColor(chess) == IF chess.turn = "w" THEN "white" ELSE "black"

\* ------------------------------------------------------------- messages
\* every payload is a record, so that any two messages can be compared
Msg(event, to, data) == [event |-> event, to |-> to, data |-> data]

\* an event emitted without a payload
NoData == [none |-> TRUE]

\* callback({ error: true, message })
Failure(message) == [error |-> TRUE, message |-> message]

\* socket.to(roomId): the sockets in the socket.io room, except the sender
SocketTo(ms, c, id) == ms[id] \ {c}

\* io.to(roomId): every socket in the socket.io room
IoTo(ms, id) == ms[id]

\* callback(x): the acknowledgement, to the requester
Ack(c, data) == Msg("ack", {c}, data)

ErrorToRoom(c, id, message) == Msg("error", members[id], [message |-> message])

\* socket.emit('error', { message }): to the requester
ErrorTo(c, id, message) == Msg("error", {c}, [message |-> message])

\* the sockets of `to` receive a gameUpdate of room id that carries moveCount
Deliver(sn, id, to, moveCount) ==
  [sn EXCEPT ![id] = [c \in Conns |-> IF c \in to THEN moveCount ELSE @[c]]]

\* a closed socket receives nothing more
Forget(sn, c) == [id \in DOMAIN sn |-> [sn[id] EXCEPT ![c] = -1]]

Event(op, c, id, move, pre, result) ==
  [op |-> op, conn |-> c, room |-> id, move |-> move, pre |-> pre,
   result |-> result]

\* gameState of the game under id before the event, for the record in last
PreState(id) == IF id \in DOMAIN games THEN games[id].gameState ELSE "absent"

\* ----------------------------------------------------------------- Init
Start(events) ==
  /\ rooms = <<>>
  /\ games = <<>>
  /\ members = [id \in RoomIds |-> {}]
  /\ connected = {}
  /\ opened = 0
  /\ now = 0
  /\ issued = 0
  /\ budget = events
  /\ seen = [id \in RoomIds |-> [c \in Conns |-> -1]]
  /\ last = Event("start", 0, 0, "none", "absent", "ok")
  /\ out = <<>>

\* one more event is dispatched to its handler
Init == Start(MaxEvents)

Handled == budget > 0 /\ budget' = budget - 1

\* io.on('connection'): a new socket, with an id no socket had before
Connect ==
  /\ Handled
  /\ opened < NumConns
  /\ opened' = opened + 1
  /\ connected' = connected \cup {opened + 1}
  /\ last' = Event("connection", opened + 1, 0, "none", "absent", "ok")
  /\ out' = <<>>
  /\ UNCHANGED <<rooms, games, members, now, issued, seen>>

\* ----------------------------------------------------------- createRoom
NewRoom(c, id) ==
  [roomId |-> id,
   players |-> <<[socketId |-> c, color |-> "white"]>>,
   status |-> "waiting",
   lastActivity |-> now]

NewGame ==
  [chess |-> NewChess, gameState |-> "waiting", currentTurn |-> "white",
   moveCount |-> 0, history |-> <<>>]

\* generateRoomId returns a random value of the id space and does not consult
\* rooms: the value is one it returned before (1..issued) or a new one, and
\* the new values are taken in the order 1, 2, ...
GenerateRoomId(id) == id \in 1..(issued + 1) \cap RoomIds

CreateRoom(c, id) ==
  /\ Handled
  /\ c \in connected
  /\ GenerateRoomId(id)
  /\ issued' = IF id > issued THEN id ELSE issued
  /\ games' = GamesSet(games, id, NewGame)
  /\ rooms' = RoomsSet(rooms, id, NewRoom(c, id))
  /\ members' = [members EXCEPT ![id] = @ \cup {c}]
  /\ last' = Event("createRoom", c, id, "none", PreState(id), "ok")
  /\ out' = <<Ack(c, [roomId |-> id])>>
  /\ UNCHANGED <<connected, opened, now, seen>>

\* ------------------------------------------------------------- joinRoom
NewPlayerWhite(c) == [socketId |-> c, color |-> "white"]

NewPlayer(c) == [socketId |-> c, color |-> "black"]

HasPlayerNever(room, c) == FALSE

HasPlayer(room, c) ==
  \E i \in 1..Len(room.players) : room.players[i].socketId = c

RoomIsFullAboveTwo(room) == Len(room.players) > 2

\* room.players.length >= 2
RoomIsFull(room) == Len(room.players) >= 2

Rejected(op, c, id, move, message, reply) ==
  /\ last' = Event(op, c, id, move, PreState(id), message)
  /\ out' = <<reply>>
  /\ UNCHANGED <<rooms, games, members, connected, opened, now, issued, seen>>

JoinedRoom(room, c) ==
  [room EXCEPT !.players = Append(@, NewPlayer(c)),
               !.status = "ready",
               !.lastActivity = now]

JoinRoom(c, id) ==
  /\ Handled
  /\ c \in connected
  /\ IF ~RoomsHas(rooms, id)
     THEN Rejected("joinRoom", c, id, "none", "Room not found",
                   Ack(c, Failure("Room not found")))
     ELSE LET room == RoomsGet(rooms, id) IN
       IF RoomIsFull(room)
       THEN Rejected("joinRoom", c, id, "none", "Room is full",
                     Ack(c, Failure("Room is full")))
       ELSE IF HasPlayer(room, c)
       THEN Rejected("joinRoom", c, id, "none", "Already in this room",
                     Ack(c, Failure("Already in this room")))
       ELSE
         /\ rooms' = RoomsSet(rooms, id, JoinedRoom(room, c))
         /\ games' = IF id \in DOMAIN games
                     THEN [games EXCEPT ![id].gameState = "active"]
                     ELSE games
         /\ members' = [members EXCEPT ![id] = @ \cup {c}]
         /\ last' = Event("joinRoom", c, id, "none", PreState(id), "ok")
         /\ out' = <<Ack(c, JoinedRoom(room, c)),
                     Msg("opponentJoined", SocketTo(members', c, id),
                         JoinedRoom(room, c))>>
         /\ UNCHANGED <<connected, opened, now, issued, seen>>

\* ----------------------------------------------------------------- move
\* room.players.find(p => p.socketId === socket.id): the first such player
PlayerIndex(room, c) ==
  CHOOSE i \in 1..Len(room.players) :
    /\ room.players[i].socketId = c
    /\ \A j \in 1..(i - 1) : room.players[j].socketId # c

AnyTurn(player, game) == TRUE

\* player.color !== currentTurn is the rejection; this is its negation
IsPlayersTurn(player, game) == player.color = TurnColor(game.chess)

WinnerIsSideToMove(chess) == IF chess.turn = "w" THEN "white" ELSE "black"

\* const winner = game.chess.turn() === 'w' ? 'black' : 'white'
Winner(chess) == IF chess.turn = "w" THEN "black" ELSE "white"

NoGameOver == [type |-> "null", winner |-> "null"]

GameOverData(chess) ==
  IF ChessIsGameOver(chess)
  THEN IF ChessIsCheckmate(chess)
       THEN [type |-> "checkmate", winner |-> Winner(chess)]
       ELSE IF ChessIsDraw(chess)
       THEN [type |-> "draw", winner |-> "null"]
       ELSE NoGameOver
  ELSE NoGameOver

\* the game after chess.move(move) accepted the input
MovedGame(game, move) ==
  LET chess == ChessMove(game.chess, move) IN
  [chess |-> chess,
   gameState |-> IF ChessIsGameOver(chess) THEN "finished" ELSE game.gameState,
   currentTurn |-> TurnColor(chess),
   moveCount |-> game.moveCount + 1,
   history |-> Append(game.history, [move |-> move, fen |-> chess.fen])]

MoveData(game, move) ==
  [fen |-> game.chess.fen, currentTurn |-> game.currentTurn,
   moveCount |-> game.moveCount, gameOver |-> GameOverData(game.chess),
   lastMove |-> move]

Move(c, id, move) ==
  /\ Handled
  /\ c \in connected
  /\ IF ~RoomsHas(rooms, id) \/ id \notin DOMAIN games
     THEN Rejected("move", c, id, move, "Room or game not found",
                   ErrorTo(c, id, "Room or game not found"))
     ELSE LET room == RoomsGet(rooms, id)
              game == games[id] IN
       IF ~HasPlayer(room, c)
       THEN Rejected("move", c, id, move, "Player not found in room",
                     ErrorTo(c, id, "Player not found in room"))
       ELSE IF ~IsPlayersTurn(room.players[PlayerIndex(room, c)], game)
       THEN Rejected("move", c, id, move, "Not your turn",
                     ErrorTo(c, id, "Not your turn"))
       ELSE IF ~ChessLegal(game.chess, move)
       THEN Rejected("move", c, id, move, "Invalid move",
                     ErrorTo(c, id, "Invalid move"))
       ELSE
         /\ game.moveCount < MaxMoves
         /\ games' = [games EXCEPT ![id] = MovedGame(game, move)]
         /\ rooms' = RoomsSet(rooms, id, [room EXCEPT !.lastActivity = now])
         /\ last' = Event("move", c, id, move, PreState(id), "ok")
         /\ out' = <<Msg("move", SocketTo(members, c, id), [move |-> move]),
                     Msg("gameUpdate", IoTo(members, id),
                         MoveData(MovedGame(game, move), move))>>
         /\ seen' = Deliver(seen, id, IoTo(members, id),
                            MovedGame(game, move).moveCount)
         /\ UNCHANGED <<members, connected, opened, now, issued>>

\* ------------------------------------------------------------ gameReset
ResetGameKeepsHistory(game) ==
  [chess |-> NewChess, gameState |-> "active", currentTurn |-> "white",
   moveCount |-> 0, history |-> game.history]

ResetGame(game) ==
  [chess |-> NewChess, gameState |-> "active", currentTurn |-> "white",
   moveCount |-> 0, history |-> <<>>]

ResetData ==
  [fen |-> NewChess.fen, currentTurn |-> "white", moveCount |-> 0,
   gameOver |-> NoGameOver, lastMove |-> "none"]

GameReset(c, id) ==
  /\ Handled
  /\ c \in connected
  /\ IF ~RoomsHas(rooms, id) \/ id \notin DOMAIN games
     THEN /\ last' = Event("gameReset", c, id, "none", PreState(id), "ignored")
          /\ out' = <<>>
          /\ UNCHANGED <<rooms, games, members, connected, opened, now, issued, seen>>
     ELSE /\ games' = [games EXCEPT ![id] = ResetGame(games[id])]
          /\ rooms' = RoomsSet(rooms, id,
                        [RoomsGet(rooms, id) EXCEPT !.lastActivity = now])
          /\ last' = Event("gameReset", c, id, "none", PreState(id), "ok")
          /\ out' = <<Msg("gameReset", IoTo(members, id), NoData),
                      Msg("gameUpdate", IoTo(members, id), ResetData)>>
          /\ seen' = Deliver(seen, id, IoTo(members, id), ResetData.moveCount)
          /\ UNCHANGED <<members, connected, opened, now, issued>>

\* ----------------------------------------------------------- disconnect
CleanupRoomKeepsGame(rs, gs, id) ==
  IF RoomsHas(rs, id) /\ Len(RoomsGet(rs, id).players) = 0
  THEN [rooms |-> RoomsDelete(rs, id), games |-> gs]
  ELSE [rooms |-> rs, games |-> gs]

CleanupRoomNever(rs, gs, id) == [rooms |-> rs, games |-> gs]

CleanupRoom(rs, gs, id) ==
  IF RoomsHas(rs, id) /\ Len(RoomsGet(rs, id).players) = 0
  THEN [rooms |-> RoomsDelete(rs, id), games |-> GamesDelete(gs, id)]
  ELSE [rooms |-> rs, games |-> gs]

\* room.players.splice(playerIndex, 1)
Splice(players, k) ==
  [i \in 1..(Len(players) - 1) |-> IF i < k THEN players[i] ELSE players[i + 1]]

\* the loop over rooms.entries() stops (break) at the first room holding c
FirstRoomOf(rs, c) ==
  CHOOSE i \in 1..Len(rs) :
    /\ HasPlayer(rs[i], c)
    /\ \A j \in 1..(i - 1) : ~HasPlayer(rs[j], c)

\* socket.io has taken the socket out of every socket.io room when the
\* 'disconnect' handler runs
LeaveAll(ms, c) == [id \in DOMAIN ms |-> ms[id] \ {c}]

Disconnect(c) ==
  /\ Handled
  /\ c \in connected
  /\ connected' = connected \ {c}
  /\ members' = LeaveAll(members, c)
  /\ IF \E i \in 1..Len(rooms) : HasPlayer(rooms[i], c)
     THEN LET room == rooms[FirstRoomOf(rooms, c)]
              id == room.roomId
              left == [room EXCEPT
                         !.players = Splice(@, PlayerIndex(room, c)),
                         !.lastActivity = now]
              kept == CleanupRoom(RoomsSet(rooms, id, left), games, id) IN
       /\ rooms' = kept.rooms
       /\ games' = kept.games
       /\ last' = Event("disconnect", c, id, "none", PreState(id), "ok")
       /\ out' = IF Len(left.players) > 0
                 THEN <<Msg("playerDisconnected", SocketTo(members', c, id),
                            [player |-> room.players[PlayerIndex(room, c)],
                             remainingPlayers |-> Len(left.players)])>>
                 ELSE <<>>
     ELSE /\ last' = Event("disconnect", c, 0, "none", "absent", "ok")
          /\ out' = <<>>
          /\ UNCHANGED <<rooms, games>>
  /\ seen' = Forget(seen, c)
  /\ UNCHANGED <<opened, now, issued>>

\* ----------------------------------------------------------- idle sweep
InactiveNever(room) == FALSE

InactiveAtThreshold(room) == now - room.lastActivity >= MaxInactiveTime

\* now - lastActivity > maxInactiveTime
Inactive(room) == now - room.lastActivity > MaxInactiveTime

\* the record of a sweep: the rooms it logged as cleaned up, in Map order
SweepEvent(removed) ==
  [op |-> "sweep", conn |-> 0, room |-> 0, move |-> "none", pre |-> "absent",
   result |-> IF removed # <<>> THEN "cleaned" ELSE "ok",
   removed |-> removed]

\* one run of the sweep: the loop visits every room, and deleting the current
\* entry does not end a Map iteration
Swept ==
  /\ rooms' = SelectSeq(rooms, LAMBDA r : ~Inactive(r))
  /\ games' = [k \in (DOMAIN games) \
                  {rooms[i].roomId : i \in {j \in 1..Len(rooms) : Inactive(rooms[j])}}
               |-> games[k]]
  /\ last' = SweepEvent(SelectSeq(rooms, Inactive))
  /\ out' = <<>>
  /\ UNCHANGED <<members, connected, opened, now, issued, seen>>

Sweep == Handled /\ Swept

\* Date.now() has advanced by one unit
Elapsed ==
  /\ now < MaxTime
  /\ now' = now + 1
  /\ last' = Event("tick", 0, 0, "none", "absent", "ok")
  /\ out' = <<>>
  /\ UNCHANGED <<rooms, games, members, connected, opened, issued, seen>>

Tick == Handled /\ Elapsed

\* the timer and the clock, outside the event budget
TimerSweep == Swept /\ UNCHANGED budget

ClockTick == Elapsed /\ UNCHANGED budget

Next ==
  \/ Connect
  \/ \E c \in Conns, id \in RoomIds : CreateRoom(c, id)
  \/ \E c \in Conns, id \in RoomIds : JoinRoom(c, id)
  \/ \E c \in Conns, id \in RoomIds, move \in MoveInputs : Move(c, id, move)
  \/ \E c \in Conns, id \in RoomIds : GameReset(c, id)
  \/ \E c \in Conns : Disconnect(c)
  \/ Sweep
  \/ Tick

Spec == Init /\ [][Next]_vars

DeepInit == Start(MaxEvents + 1)

DeepSpec == DeepInit /\ [][Next]_vars

LiveInit == Start(LiveEvents)

LiveNext ==
  \/ Connect
  \/ \E c \in Conns, id \in RoomIds : CreateRoom(c, id)
  \/ \E c \in Conns, id \in RoomIds : JoinRoom(c, id)
  \/ \E c \in Conns, id \in RoomIds, move \in MoveInputs : Move(c, id, move)
  \/ \E c \in Conns, id \in RoomIds : GameReset(c, id)
  \/ \E c \in Conns : Disconnect(c)
  \/ TimerSweep
  \/ ClockTick

LiveSpec ==
  /\ LiveInit
  /\ [][LiveNext]_vars
  /\ WF_<<rooms, games>>(TimerSweep)
  /\ WF_now(ClockTick)

\* ======================================================================
\* Properties
\* ======================================================================
PlayerIds(room) == {room.players[i].socketId : i \in 1..Len(room.players)}

\* the room and the game under id are as createRoom leaves them
AsCreated(id) ==
  /\ RoomsHas(rooms, id)
  /\ id \in DOMAIN games
  /\ Len(RoomsGet(rooms, id).players) = 1
  /\ RoomsGet(rooms, id).players[1].color = "white"
  /\ RoomsGet(rooms, id).status = "waiting"
  /\ games[id] = NewGame

\* C1: a joinRoom by a connection other than the creator, on a room that is
\* as createRoom left it, succeeds and leaves the room with exactly two
\* participants, the creator as white and the joiner as black, status
\* 'ready', and the game 'active'.
C1_CreateThenJoin ==
  [][\A id \in RoomIds, c \in Conns :
       (/\ last'.op = "joinRoom" /\ last'.room = id /\ last'.conn = c
        /\ AsCreated(id)
        /\ RoomsGet(rooms, id).players[1].socketId # c)
       => /\ last'.result = "ok"
          /\ RoomsHas(rooms', id)
          /\ Len(RoomsGet(rooms', id).players) = 2
          /\ RoomsGet(rooms', id).players[1] = RoomsGet(rooms, id).players[1]
          /\ RoomsGet(rooms', id).players[2] = [socketId |-> c, color |-> "black"]
          /\ RoomsGet(rooms', id).status = "ready"
          /\ id \in DOMAIN games'
          /\ games'[id].gameState = "active"]_vars

C1_Witness ==
  /\ last.op = "joinRoom" /\ last.result = "ok" /\ last.pre = "waiting"
  /\ games[last.room].moveCount = 0
  /\ Len(RoomsGet(rooms, last.room).players) = 2

\* C2: after an accepted move the 'move' message goes to exactly the room's
\* participants other than the submitter, and the 'gameUpdate' to exactly
\* the room's participants.
C2_MoveAudience ==
  (last.op = "move" /\ last.result = "ok")
  => /\ Len(out) = 2
     /\ out[1].event = "move"
     /\ out[1].to = PlayerIds(RoomsGet(rooms, last.room)) \ {last.conn}
     /\ out[2].event = "gameUpdate"
     /\ out[2].to = PlayerIds(RoomsGet(rooms, last.room))

\* C3: a move by a participant whose colour is not the engine's side to move
\* is answered 'Not your turn' to the requester, and the game under that id
\* (engine board, moveCount, currentTurn, history, gameState) is unchanged.
C3_OutOfTurnRejected ==
  [][\A id \in RoomIds, c \in Conns :
       (/\ last'.op = "move" /\ last'.room = id /\ last'.conn = c
        /\ RoomsHas(rooms, id) /\ id \in DOMAIN games
        /\ HasPlayer(RoomsGet(rooms, id), c)
        /\ RoomsGet(rooms, id).players[PlayerIndex(RoomsGet(rooms, id), c)].color
             # TurnColor(games[id].chess))
       => /\ last'.result = "Not your turn"
          /\ id \in DOMAIN games'
          /\ games'[id] = games[id]
          /\ Len(out') = 1
          /\ out'[1].event = "error"
          /\ out'[1].to = {c}
          /\ out'[1].data.message = "Not your turn"]_vars

C3_Witness ==
  /\ last.op = "move" /\ last.result = "Not your turn"
  /\ last.room \in DOMAIN games
  /\ games[last.room].moveCount > 0

\* C4: an accepted move adds 1 to moveCount and flips currentTurn, and no
\* event other than an accepted move or a gameReset changes the moveCount or
\* the currentTurn of the game under an id.
C4_MoveCountTurn ==
  [][\A id \in (DOMAIN games) \cap (DOMAIN games') :
       IF last'.op = "move" /\ last'.result = "ok" /\ last'.room = id
       THEN /\ games'[id].moveCount = games[id].moveCount + 1
            /\ games'[id].currentTurn # games[id].currentTurn
       ELSE IF last'.op = "gameReset" /\ last'.room = id
       THEN TRUE
       ELSE /\ games'[id].moveCount = games[id].moveCount
            /\ games'[id].currentTurn = games[id].currentTurn]_vars

\* C5: every room has at most one white and at most one black participant.
C5_OnePerSide ==
  \A i \in 1..Len(rooms) : \A side \in {"white", "black"} :
    Cardinality({k \in 1..Len(rooms[i].players) :
                   rooms[i].players[k].color = side}) <= 1

\* C6: every connection is a participant of at most one room.
C6_OneRoomPerConn ==
  \A c \in Conns :
    Cardinality({i \in 1..Len(rooms) : HasPlayer(rooms[i], c)}) <= 1

\* C7: when the only participant of a room disconnects, the room id is in
\* neither registry after the disconnect has been handled.
C7_SoleDisconnect ==
  [][\A id \in RoomIds, c \in Conns :
       (/\ last'.op = "disconnect" /\ last'.conn = c
        /\ RoomsHas(rooms, id)
        /\ PlayerIds(RoomsGet(rooms, id)) = {c})
       => (~RoomsHas(rooms', id) /\ id \notin DOMAIN games')]_vars

\* C8: createRoom registers the room under an id that was not in the
\* registry, and leaves every existing room and game as it was.
C8_FreshRoomId ==
  [][last'.op = "createRoom"
     => /\ ~RoomsHas(rooms, last'.room)
        /\ last'.room \notin DOMAIN games
        /\ \A id \in RoomsKeys(rooms) :
             RoomsHas(rooms', id) /\ RoomsGet(rooms', id) = RoomsGet(rooms, id)
        /\ \A id \in DOMAIN games :
             id \in DOMAIN games' /\ games'[id] = games[id]]_vars

\* C9: a rejected joinRoom or move changes no room and no game, and every
\* message it emits goes to the requester alone.
C9_RejectedNoEffect ==
  [][(last'.op \in {"joinRoom", "move"} /\ last'.result # "ok")
     => /\ rooms' = rooms
        /\ games' = games
        /\ Len(out') >= 1
        /\ \A i \in 1..Len(out') : out'[i].to = {last'.conn}]_vars

C9_Witness ==
  /\ last.op = "move" /\ last.result = "Invalid move"
  /\ members[last.room] \ {last.conn} # {}

\* C10: after an accepted move that gives checkmate, gameState is 'finished'
\* and the gameUpdate names as winner the colour of the participant who
\* moved, which is not the side the engine has to move.
C10_CheckmateWinner ==
  (/\ last.op = "move" /\ last.result = "ok"
   /\ ChessIsCheckmate(games[last.room].chess))
  => /\ games[last.room].gameState = "finished"
     /\ out[2].event = "gameUpdate"
     /\ out[2].data.gameOver.type = "checkmate"
     /\ out[2].data.gameOver.winner =
          RoomsGet(rooms, last.room).players[
            PlayerIndex(RoomsGet(rooms, last.room), last.conn)].color
     /\ out[2].data.gameOver.winner # TurnColor(games[last.room].chess)

C10_Witness ==
  /\ last.op = "move" /\ last.result = "ok" /\ last.move = "mating"
  /\ games[last.room].gameState = "finished"
  /\ Len(RoomsGet(rooms, last.room).players) = 2

\* C11: a joinRoom on a room with 2 participants by a connection that is not
\* one of them is answered 'Room is full', and the room (participants,
\* status) and its game are unchanged.
C11_FullRoomRejected ==
  [][\A id \in RoomIds, c \in Conns :
       (/\ last'.op = "joinRoom" /\ last'.room = id /\ last'.conn = c
        /\ RoomsHas(rooms, id)
        /\ Len(RoomsGet(rooms, id).players) = 2
        /\ c \notin PlayerIds(RoomsGet(rooms, id)))
       => /\ last'.result = "Room is full"
          /\ Len(out') = 1 /\ out'[1].to = {c} /\ out'[1].data.message = "Room is full"
          /\ rooms' = rooms
          /\ games' = games]_vars

C11_Witness ==
  /\ last.op = "joinRoom" /\ last.result = "Room is full"
  /\ last.conn \notin PlayerIds(RoomsGet(rooms, last.room))

\* C12 as claimed: a joinRoom by a connection that is a participant of the
\* room is answered 'Already in this room', with 1 or 2 participants.
C12_AlreadyJoinedAlways ==
  [][\A id \in RoomIds, c \in Conns :
       (/\ last'.op = "joinRoom" /\ last'.room = id /\ last'.conn = c
        /\ RoomsHas(rooms, id)
        /\ c \in PlayerIds(RoomsGet(rooms, id)))
       => /\ last'.result = "Already in this room"
          /\ rooms' = rooms
          /\ games' = games]_vars

\* C12 as amended: a joinRoom by a connection that is a participant of the
\* room is rejected and changes nothing; the answer is 'Already in this
\* room' when the room has 1 participant and 'Room is full' when it has 2.
C12_ParticipantJoinRejected ==
  [][\A id \in RoomIds, c \in Conns :
       (/\ last'.op = "joinRoom" /\ last'.room = id /\ last'.conn = c
        /\ RoomsHas(rooms, id)
        /\ c \in PlayerIds(RoomsGet(rooms, id)))
       => /\ last'.result =
               IF Len(RoomsGet(rooms, id).players) = 1
               THEN "Already in this room" ELSE "Room is full"
          /\ Len(out') = 1 /\ out'[1].to = {c}
          /\ rooms' = rooms
          /\ games' = games]_vars

C12_Witness ==
  /\ last.op = "joinRoom" /\ last.result = "Already in this room"
  /\ last.conn \in PlayerIds(RoomsGet(rooms, last.room))

\* C13: a gameReset on an existing room whose game is active or finished
\* leaves moveCount 0, currentTurn white, history empty, gameState active and
\* the engine at the initial position; a gameReset that follows a gameReset
\* of the same room leaves the game as it is; a gameReset on a missing room
\* changes nothing and sends nothing.
C13_ResetGame ==
  [][\A id \in RoomIds :
       (last'.op = "gameReset" /\ last'.room = id)
       => IF RoomsHas(rooms, id) /\ id \in DOMAIN games
          THEN /\ games[id].gameState \in {"active", "finished"}
                  => /\ id \in DOMAIN games'
                     /\ games'[id].moveCount = 0
                     /\ games'[id].currentTurn = "white"
                     /\ games'[id].history = <<>>
                     /\ games'[id].gameState = "active"
                     /\ games'[id].chess = NewChess
               /\ (last.op = "gameReset" /\ last.room = id /\ last.result = "ok")
                  => games'[id] = games[id]
          ELSE /\ rooms' = rooms
               /\ games' = games
               /\ out' = <<>>]_vars

C13_Witness ==
  /\ last.op = "gameReset" /\ last.result = "ok" /\ last.pre = "finished"
  /\ games[last.room].moveCount = 0

\* C14: one run of the idle sweep removes the room and the game of every
\* room whose lastActivity is more than the threshold before the sweep time,
\* whatever its participant count, and leaves every other room and its game
\* as they were.
C14_SweepRemovesIdleOnly ==
  [][last'.op = "sweep"
     => \A i \in 1..Len(rooms) :
          IF now - rooms[i].lastActivity > MaxInactiveTime
          THEN /\ ~RoomsHas(rooms', rooms[i].roomId)
               /\ rooms[i].roomId \notin DOMAIN games'
          ELSE /\ RoomsHas(rooms', rooms[i].roomId)
               /\ RoomsGet(rooms', rooms[i].roomId) = rooms[i]
               /\ rooms[i].roomId \in DOMAIN games
                  => /\ rooms[i].roomId \in DOMAIN games'
                     /\ games'[rooms[i].roomId] = games[rooms[i].roomId]]_vars

C14_Witness ==
  /\ last.op = "sweep" /\ last.result = "cleaned"
  /\ Len(rooms) >= 1

\* C15: the ids that have a room are the ids that have a game.
C15_RoomsAndGamesTogether == RoomsKeys(rooms) = DOMAIN games

C15_Witness ==
  /\ last.op = "disconnect" /\ last.pre # "absent"
  /\ ~RoomsHas(rooms, last.room)
  /\ last.room \notin DOMAIN games
  /\ Len(rooms) >= 1

\* C16: a room's status is 'waiting' exactly when it has 1 participant and
\* 'ready' exactly when it has 2.
C16_StatusMatchesCount ==
  \A i \in 1..Len(rooms) :
    /\ rooms[i].status = "waiting" <=> Len(rooms[i].players) = 1
    /\ rooms[i].status = "ready" <=> Len(rooms[i].players) = 2

\* C17: every room of the registry has 1 or 2 participants.
C17_OneOrTwoParticipants ==
  \A i \in 1..Len(rooms) : Len(rooms[i].players) \in {1, 2}

C17_Witness ==
  /\ last.op = "disconnect" /\ last.pre # "absent"
  /\ ~RoomsHas(rooms, last.room)
  /\ rooms = <<>>

C19_UpdatesInOrder ==
  [][\A id \in RoomIds :
       (last'.op = "move" /\ last'.result = "ok" /\ last'.room = id)
       => /\ Len(out') = 2
          /\ out'[1].event = "move"
          /\ out'[2].event = "gameUpdate"
          /\ out'[1].to \subseteq out'[2].to
          /\ out'[2].data.moveCount = games'[id].moveCount
          /\ out'[2].data.moveCount = games[id].moveCount + 1
          /\ out'[2].data.currentTurn = games'[id].currentTurn
          /\ out'[2].data.fen = games'[id].chess.fen
          /\ Len(games'[id].history) = games'[id].moveCount
          /\ \A c \in out'[2].to : seen[id][c] <= out'[2].data.moveCount]_vars

\* C20: with the sweep timer and the clock running (weak fairness), a room
\* whose lastActivity stays at t is eventually absent from rooms and from
\* games, whatever the number of its participants (t ranges over the values
\* the bounded clock can outrun); and one run of the sweep removes every room
\* that is idle when it runs, whichever rooms it keeps.
C20_IdleRoomsRemoved ==
  /\ \A id \in RoomIds : \A t \in 0..(MaxTime - MaxInactiveTime - 1) :
       (RoomsHas(rooms, id) /\ RoomsGet(rooms, id).lastActivity = t)
       ~> \/ ~RoomsHas(rooms, id) /\ id \notin DOMAIN games
          \/ RoomsHas(rooms, id) /\ RoomsGet(rooms, id).lastActivity # t
  /\ [][last'.op = "sweep"
        => \A i \in 1..Len(rooms) :
             now - rooms[i].lastActivity > MaxInactiveTime
             => /\ ~RoomsHas(rooms', rooms[i].roomId)
                /\ rooms[i].roomId \notin DOMAIN games']_vars

\* one run of the sweep has just removed a room of two participants and a
\* room of one, and no room is left
C20_Witness ==
  /\ last.op = "sweep"
  /\ \E i, j \in 1..Len(last.removed) :
       /\ Len(last.removed[i].players) = 2
       /\ Len(last.removed[j].players) = 1
  /\ rooms = <<>>
  /\ DOMAIN games = {}

\* C21: a move is accepted (board, moveCount and history change) only while
\* the gameState of the game is 'active': never while it is 'waiting' and
\* never while it is 'finished'.
C21_AcceptedOnlyWhileActive ==
  [][\A id \in RoomIds :
       (/\ last'.op = "move" /\ last'.room = id
        /\ id \in DOMAIN games /\ id \in DOMAIN games'
        /\ \/ games'[id].chess # games[id].chess
           \/ games'[id].moveCount # games[id].moveCount
           \/ games'[id].history # games[id].history)
       => games[id].gameState = "active"]_vars

\* the same, for a finished game alone
C21_NoMoveWhileFinished ==
  [][\A id \in RoomIds :
       (/\ last'.op = "move" /\ last'.room = id /\ last'.result = "ok"
        /\ id \in DOMAIN games)
       => games[id].gameState # "finished"]_vars
====
